---- MODULE Spec2Model ----
(***************************************************************************)
(* MoTeC .ld reader: the binary decoding engine of src/src/utils.ts        *)
(* (BinaryReader, LdChan, readChannels), src/src/ldHead.ts (LdHead,        *)
(* LdEvent, LdVenue, LdVehicle) and src/src/ldData.ts (LdData).            *)
(*                                                                         *)
(* A file is a byte buffer; text is a sequence of character codes.  The    *)
(* load (LdData.fromFile) runs as a sequence of steps over one shared      *)
(* cursor; after it, the lookups and the lazy .data getter are the         *)
(* operations.                                                             *)
(***************************************************************************)
EXTENDS Integers, Sequences, FiniteSets, TLC

VARIABLES
  buffer,     \* the file: [len, bytes] (BinaryReader.buffer), never written
  position,   \* BinaryReader.position, the one shared cursor
  pc,         \* where LdData.fromFile stands, or "loaded" / "failed"
  stack,      \* the frames of the parsers waiting for a nested parse
  ret,        \* the record the last nested parser returned (None before)
  head,       \* LdData.head (None until the header is built)
  channels,   \* the list readChannels builds, then LdData.channels
  currentPtr, \* readChannels' currentPtr
  cache,      \* LdChan._data of every channel (None: not computed)
  result,     \* what the last operation returned or threw
  err,        \* the condition that ended the load, or "none"
  trace       \* observation of the load: where fields were read, jumps, short reads

vars == <<buffer, position, pc, stack, ret, head, channels, currentPtr,
          cache, result, err, trace>>

Null == "null"        \* the dtype that is not resolved

\* a value that may be absent (null in the source): None, or Some(x)
None == << >>
Some(x) == <<x>>

Min(a, b) == IF a < b THEN a ELSE b
Max(a, b) == IF a > b THEN a ELSE b

RECURSIVE Pow(_, _)
Pow(b, n) == IF n = 0 THEN 1 ELSE b * Pow(b, n - 1)

(***************************************************************************)
(* Buffer: length and content.  The content is kept sparse: a byte that    *)
(* the function does not list is 0.                                        *)
(***************************************************************************)
Byte(buf, i) == IF i \in DOMAIN buf.bytes THEN buf.bytes[i] ELSE 0

InBounds(buf, pos, width) == pos >= 0 /\ pos + width <= buf.len

\* Buffer.readUIntLE: the little-endian value of width bytes at pos
RECURSIVE UIntLE(_, _, _)
UIntLE(buf, pos, width) ==
  IF width = 0 THEN 0
  ELSE Byte(buf, pos) + 256 * UIntLE(buf, pos + 1, width - 1)

\* Buffer.readIntLE: two's complement, the top byte carries the sign
IntLE(buf, pos, width) ==
  LET top == Byte(buf, pos + width - 1)
  IN  UIntLE(buf, pos, width - 1)
      + Pow(256, width - 1) * (IF top >= 128 THEN top - 256 ELSE top)

\* Buffer.slice(start, end): both ends are clamped to the buffer, never throws
Slice(buf, start, end) ==
  LET s == Min(Max(start, 0), buf.len)
      e == Min(Max(end, 0), buf.len)
  IN  IF e <= s THEN << >> ELSE [i \in 1..(e - s) |-> Byte(buf, s + i - 1)]

(***************************************************************************)
(* decodeString: cut at the first null byte, decode as ASCII (the high bit *)
(* of every byte is dropped), trim the white space of both ends.           *)
(***************************************************************************)
IsSpace(c) == c \in {9, 10, 11, 12, 13, 32}

RECURSIVE IndexOfZero(_, _)
IndexOfZero(bytes, i) ==
  IF i > Len(bytes) THEN -1
  ELSE IF bytes[i] = 0 THEN i - 1
  ELSE IndexOfZero(bytes, i + 1)

RECURSIVE TrimStart(_)
TrimStart(s) ==
  IF s # << >> /\ IsSpace(Head(s)) THEN TrimStart(Tail(s)) ELSE s

RECURSIVE TrimEnd(_)
TrimEnd(s) ==
  IF s # << >> /\ IsSpace(s[Len(s)]) THEN TrimEnd(SubSeq(s, 1, Len(s) - 1)) ELSE s

decodeString(bytes) ==
  LET nullIndex == IndexOfZero(bytes, 1)
      endIndex  == IF nullIndex >= 0 THEN nullIndex ELSE Len(bytes)
      ascii     == [i \in 1..endIndex |-> bytes[i] % 128]
  IN  TrimEnd(TrimStart(ascii))

(***************************************************************************)
(* JavaScript numbers.  A double is [k, s, m, e]: k = "num" is the value   *)
(* (-1)^s * m * 2^e with m a natural number kept odd (or 0 with e = 0),    *)
(* k = "inf" is the infinity of sign s, k = "nan" is NaN.  m is a sequence *)
(* of 15-bit limbs, low limb first, since a 53-bit mantissa does not fit a *)
(* machine integer of the checker.  Every operation rounds its exact       *)
(* result to 53 bits, to nearest, ties to even, as IEEE 754 does; the      *)
(* exponent range is not modelled (no value here comes near its ends).     *)
(***************************************************************************)
Limb == 2^15

RECURSIVE BN(_)
BN(n) == IF n = 0 THEN << >> ELSE <<n % Limb>> \o BN(n \div Limb)

RECURSIVE BTrim(_)
BTrim(a) ==
  IF a # << >> /\ a[Len(a)] = 0 THEN BTrim(SubSeq(a, 1, Len(a) - 1)) ELSE a

RECURSIVE BAddC(_, _, _)
BAddC(a, b, carry) ==
  IF a = << >> /\ b = << >> THEN (IF carry = 0 THEN << >> ELSE <<carry>>)
  ELSE LET x == IF a = << >> THEN 0 ELSE Head(a)
           y == IF b = << >> THEN 0 ELSE Head(b)
           t == x + y + carry
       IN  <<t % Limb>> \o BAddC(IF a = << >> THEN a ELSE Tail(a),
                                 IF b = << >> THEN b ELSE Tail(b), t \div Limb)
BAdd(a, b) == BAddC(a, b, 0)

\* a - b for a >= b
RECURSIVE BSubC(_, _, _)
BSubC(a, b, borrow) ==
  IF a = << >> THEN << >>
  ELSE LET y == IF b = << >> THEN 0 ELSE Head(b)
           t == Head(a) - y - borrow
       IN  <<t % Limb>> \o BSubC(Tail(a), IF b = << >> THEN b ELSE Tail(b),
                                 IF t < 0 THEN 1 ELSE 0)
BSub(a, b) == BTrim(BSubC(a, b, 0))

\* a < b
RECURSIVE BLess(_, _)
BLess(a, b) ==
  IF Len(a) # Len(b) THEN Len(a) < Len(b)
  ELSE IF a = << >> THEN FALSE
  ELSE IF a[Len(a)] # b[Len(b)] THEN a[Len(a)] < b[Len(b)]
  ELSE BLess(SubSeq(a, 1, Len(a) - 1), SubSeq(b, 1, Len(b) - 1))

\* a * k for 0 <= k <= Limb
RECURSIVE BMulC(_, _, _)
BMulC(a, k, carry) ==
  IF a = << >> THEN BN(carry)
  ELSE LET t == Head(a) * k + carry
       IN  <<t % Limb>> \o BMulC(Tail(a), k, t \div Limb)
BMulSmall(a, k) == BTrim(BMulC(a, k, 0))

Zeros(n) == [i \in 1..n |-> 0]

RECURSIVE BMul(_, _)
BMul(a, b) ==
  IF b = << >> \/ a = << >> THEN << >>
  ELSE BAdd(BMulSmall(a, Head(b)), BTrim(<<0>> \o BMul(a, Tail(b))))

\* <<a div k, a mod k>> for 0 < k <= Limb
RECURSIVE BDivC(_, _, _)
BDivC(a, k, i) ==
  IF i > Len(a) THEN << << >>, 0 >>
  ELSE LET hi == BDivC(a, k, i + 1)
           t  == hi[2] * Limb + a[i]
       IN  << <<t \div k>> \o hi[1], t % k >>
BDivSmall(a, k) == LET r == BDivC(a, k, 1) IN << BTrim(r[1]), r[2] >>

RECURSIVE BitLen(_)
BitLen(n) == IF n = 0 THEN 0 ELSE 1 + BitLen(n \div 2)
BBitLen(a) == IF a = << >> THEN 0 ELSE 15 * (Len(a) - 1) + BitLen(a[Len(a)])

BShl(a, bits) ==
  IF a = << >> THEN a
  ELSE Zeros(bits \div 15) \o BMulSmall(a, Pow(2, bits % 15))

\* a div 2^bits
BShr(a, bits) ==
  IF bits \div 15 >= Len(a) THEN << >>
  ELSE BDivSmall(SubSeq(a, bits \div 15 + 1, Len(a)), Pow(2, bits % 15))[1]

BIsOdd(a) == a # << >> /\ a[1] % 2 = 1

RECURSIVE TrailingZeros(_)
TrailingZeros(a) ==
  IF a = << >> THEN 0
  ELSE IF a[1] = 0 THEN 15 + TrailingZeros(Tail(a))
  ELSE LET RECURSIVE tz(_)
           tz(n) == IF n % 2 = 1 THEN 0 ELSE 1 + tz(n \div 2)
       IN  tz(a[1])

NaN == [k |-> "nan", s |-> 0, m |-> << >>, e |-> 0]
Inf(s) == [k |-> "inf", s |-> s, m |-> << >>, e |-> 0]
Zero(s) == [k |-> "num", s |-> s, m |-> << >>, e |-> 0]

\* the double of sign s and magnitude m * 2^e when m has at most 53 bits
Exact(s, m, e) ==
  IF m = << >> THEN Zero(s)
  ELSE LET z == TrailingZeros(m)
       IN  [k |-> "num", s |-> s, m |-> BShr(m, z), e |-> e + z]

\* the double nearest to m * 2^e (sticky: plus a nonzero part below the last
\* bit of m, which then has more than 54 bits)
RoundDouble(s, m, e, sticky) ==
  LET len == BBitLen(m)
      sh  == len - 53
  IN  IF sh <= 0 THEN Exact(s, m, e)
      ELSE LET q2    == BShr(m, sh - 1)
               q     == BShr(q2, 1)
               guard == BIsOdd(q2)
               rest  == sticky \/ BShl(q2, sh - 1) # m
               up    == guard /\ (rest \/ BIsOdd(q))
           IN  Exact(s, IF up THEN BAdd(q, <<1>>) ELSE q, e + sh)

Abs(n) == IF n < 0 THEN -n ELSE n
Xor(a, b) == IF a = b THEN 0 ELSE 1

\* the double of an integer
FromInt(n) == Exact(IF n < 0 THEN 1 ELSE 0, BN(Abs(n)), 0)

IsZero(x) == x.k = "num" /\ x.m = << >>

\* x * y
DMul(x, y) ==
  IF x.k = "nan" \/ y.k = "nan" THEN NaN
  ELSE IF x.k = "inf" \/ y.k = "inf"
  THEN (IF IsZero(x) \/ IsZero(y) THEN NaN ELSE Inf(Xor(x.s, y.s)))
  ELSE RoundDouble(Xor(x.s, y.s), BMul(x.m, y.m), x.e + y.e, FALSE)

\* x / y
DDiv(x, y) ==
  IF x.k = "nan" \/ y.k = "nan" THEN NaN
  ELSE IF x.k = "inf" THEN (IF y.k = "inf" THEN NaN ELSE Inf(Xor(x.s, y.s)))
  ELSE IF y.k = "inf" THEN Zero(Xor(x.s, y.s))
  ELSE IF IsZero(y) THEN (IF IsZero(x) THEN NaN ELSE Inf(Xor(x.s, y.s)))
  ELSE IF IsZero(x) THEN Zero(Xor(x.s, y.s))
  ELSE \* y.m is odd and below 2^15 for every divisor used here
       LET d == BDivSmall(BShl(x.m, 75), y.m[1])
       IN  RoundDouble(Xor(x.s, y.s), d[1], x.e - 75 - y.e, d[2] # 0)

\* x + y
DAdd(x, y) ==
  IF x.k = "nan" \/ y.k = "nan" THEN NaN
  ELSE IF x.k = "inf"
  THEN (IF y.k = "inf" /\ y.s # x.s THEN NaN ELSE x)
  ELSE IF y.k = "inf" THEN y
  ELSE IF IsZero(x) /\ IsZero(y) THEN Zero(IF x.s = 1 /\ y.s = 1 THEN 1 ELSE 0)
  ELSE IF IsZero(x) THEN y
  ELSE IF IsZero(y) THEN x
  ELSE LET e  == Min(x.e, y.e)
           mx == BShl(x.m, x.e - e)
           my == BShl(y.m, y.e - e)
       IN  IF x.s = y.s THEN RoundDouble(x.s, BAdd(mx, my), e, FALSE)
           ELSE IF mx = my THEN Zero(0)
           ELSE IF BLess(mx, my) THEN RoundDouble(y.s, BSub(my, mx), e, FALSE)
           ELSE RoundDouble(x.s, BSub(mx, my), e, FALSE)

\* Math.pow(2, n) and Math.pow(10, n) for an integer n of small magnitude
Pow2(n) == [k |-> "num", s |-> 0, m |-> <<1>>, e |-> n]
Pow10(n) ==
  IF n >= 0 THEN FromInt(Pow(10, n)) ELSE DDiv(FromInt(1), FromInt(Pow(10, -n)))

(***************************************************************************)
(* BinaryReader primitives.  Each takes the cursor state                   *)
(*   c = [pos, vals, at, short, oob]                                      *)
(* and returns the next one: vals are the fields decoded so far, at the    *)
(* cursor position each was read at, short the byte ranges readBytes       *)
(* returned although they leave the buffer, oob whether a read threw       *)
(* RangeError (the OutOfBounds condition).                                 *)
(***************************************************************************)
Cursor(pos) ==
  [pos |-> pos, vals |-> << >>, at |-> << >>, short |-> {}, oob |-> FALSE]

Put(f, k, v) == [x \in DOMAIN f \cup {k} |-> IF x = k THEN v ELSE f[x]]

skip(c, bytes) == [c EXCEPT !.pos = c.pos + bytes]

\* readUInt32LE / readUInt16LE: Buffer.readUIntNLE throws outside the buffer
readUIntLE(buf, c, width, field) ==
  IF ~InBounds(buf, c.pos, width) THEN [c EXCEPT !.oob = TRUE]
  ELSE [c EXCEPT !.vals = Put(c.vals, field, UIntLE(buf, c.pos, width)),
                 !.at = Put(c.at, field, c.pos),
                 !.pos = c.pos + width]

\* readInt16LE / readInt32LE
readIntLE(buf, c, width, field) ==
  IF ~InBounds(buf, c.pos, width) THEN [c EXCEPT !.oob = TRUE]
  ELSE [c EXCEPT !.vals = Put(c.vals, field, IntLE(buf, c.pos, width)),
                 !.at = Put(c.at, field, c.pos),
                 !.pos = c.pos + width]

\* decodeString(reader.readBytes(length)): slices, advances, never throws
readString(buf, c, length, field) ==
  [c EXCEPT !.vals = Put(c.vals, field, decodeString(Slice(buf, c.pos, c.pos + length))),
            !.at = Put(c.at, field, c.pos),
            !.short = IF InBounds(buf, c.pos, length) THEN c.short
                      ELSE c.short \cup {<<c.pos, length>>},
            !.pos = c.pos + length]

(***************************************************************************)
(* A record layout is the sequence of reader calls of its fromFile; Decode *)
(* runs them in order and stops at the first read that throws.             *)
(***************************************************************************)
Skip(n)   == [k |-> "skip", n |-> n, f |-> ""]
U32(f)    == [k |-> "u32", n |-> 4, f |-> f]
U16(f)    == [k |-> "u16", n |-> 2, f |-> f]
I16(f)    == [k |-> "i16", n |-> 2, f |-> f]
Str(n, f) == [k |-> "str", n |-> n, f |-> f]

Step(buf, c, op) ==
  CASE op.k = "skip" -> skip(c, op.n)
    [] op.k = "u32"  -> readUIntLE(buf, c, 4, op.f)
    [] op.k = "u16"  -> readUIntLE(buf, c, 2, op.f)
    [] op.k = "i16"  -> readIntLE(buf, c, 2, op.f)
    [] op.k = "str"  -> readString(buf, c, op.n, op.f)

RECURSIVE Run(_, _, _, _)
Run(buf, c, layout, i) ==
  IF i > Len(layout) \/ c.oob THEN c
  ELSE Run(buf, Step(buf, c, layout[i]), layout, i + 1)

Decode(buf, pos, layout) == Run(buf, Cursor(pos), layout, 1)

\* the header reads with 32 bytes skipped where the code skips 24
HeadLayoutShifted ==
  << Skip(4), Skip(4), U32("metaPtr"), U32("dataPtr"), Skip(20),
     U32("eventPtr"), Skip(32),
     Skip(2 + 2 + 2), Skip(4), Skip(8), Skip(2), Skip(2), Skip(4), Skip(4),
     Str(16, "dateStr"), Skip(16), Str(16, "timeStr"), Skip(16),
     Str(64, "driver"), Str(64, "vehicleId"), Skip(64), Str(64, "venue"),
     Skip(64), Skip(1024), Skip(4), Skip(66),
     Str(64, "shortComment"), Skip(126) >>

\* LdHead.fromFile, the reads of the header structure
HeadLayout ==
  << Skip(4), Skip(4), U32("metaPtr"), U32("dataPtr"), Skip(20),
     U32("eventPtr"), Skip(24),
     Skip(2 + 2 + 2), Skip(4), Skip(8), Skip(2), Skip(2), Skip(4), Skip(4),
     Str(16, "dateStr"), Skip(16), Str(16, "timeStr"), Skip(16),
     Str(64, "driver"), Str(64, "vehicleId"), Skip(64), Str(64, "venue"),
     Skip(64), Skip(1024), Skip(4), Skip(66),
     Str(64, "shortComment"), Skip(126) >>

\* LdEvent.fromFile
EventLayout ==
  << Str(64, "name"), Str(64, "session"), Str(1024, "comment"), U16("venuePtr") >>

\* LdVenue.fromFile
VenueLayout == << Str(64, "name"), Skip(1034), U16("vehiclePtr") >>

\* LdVehicle.fromFile
VehicleLayout ==
  << Str(64, "id"), Skip(128), U32("weight"), Str(32, "type"), Str(32, "comment") >>

\* LdChan.fromFile, the reads of the channel structure
ChanLayout ==
  << U32("prevMetaPtr"), U32("nextMetaPtr"), U32("dataPtr"), U32("dataLen"),
     Skip(2), U16("dtypeA"), U16("dtypeRaw"), U16("freq"),
     I16("shift"), I16("mul"), I16("scale"), I16("dec"),
     Str(32, "name"), Str(8, "shortName"), Str(12, "unit"), Skip(40) >>

(***************************************************************************)
(* LdHead.fromFile, the date: "dateStr timeStr" is searched for            *)
(* dd/mm/yyyy HH:MM:SS, then for dd/mm/yyyy HH:MM; the result is the       *)
(* argument list of new Date(...), or now: the wall clock.                 *)
(***************************************************************************)
IsDigit(t, i) == i >= 1 /\ i <= Len(t) /\ t[i] \in 48..57
IsChar(t, i, ch) == i >= 1 /\ i <= Len(t) /\ t[i] = ch

RECURSIVE Digits(_, _, _)
Digits(t, i, n) == n = 0 \/ (IsDigit(t, i) /\ Digits(t, i + 1, n - 1))

RECURSIVE parseInt(_, _, _)
parseInt(t, i, n) ==
  IF n = 0 THEN 0 ELSE (t[i] - 48) * Pow(10, n - 1) + parseInt(t, i + 1, n - 1)

RECURSIVE AfterSpaces(_, _)
AfterSpaces(t, i) ==
  IF i <= Len(t) /\ IsSpace(t[i]) THEN AfterSpaces(t, i + 1) ELSE i

\* the match of the pattern at index i, or None
MatchAt(t, i, seconds) ==
  LET j == AfterSpaces(t, i + 10)
      date == /\ Digits(t, i, 2) /\ IsChar(t, i + 2, 47)
              /\ Digits(t, i + 3, 2) /\ IsChar(t, i + 5, 47)
              /\ Digits(t, i + 6, 4)
      time == /\ j > i + 10
              /\ Digits(t, j, 2) /\ IsChar(t, j + 2, 58) /\ Digits(t, j + 3, 2)
              /\ (seconds => IsChar(t, j + 5, 58) /\ Digits(t, j + 6, 2))
  IN  IF date /\ time
      THEN Some(<< parseInt(t, i + 6, 4), parseInt(t, i + 3, 2) - 1, parseInt(t, i, 2),
                   parseInt(t, j, 2), parseInt(t, j + 3, 2),
                   IF seconds THEN parseInt(t, j + 6, 2) ELSE 0 >>)
      ELSE None

RECURSIVE Match(_, _, _)
Match(t, i, seconds) ==
  IF i > Len(t) THEN None
  ELSE IF MatchAt(t, i, seconds) # None THEN MatchAt(t, i, seconds)
  ELSE Match(t, i + 1, seconds)

parseDatetime(dateStr, timeStr) ==
  LET t == dateStr \o <<32>> \o timeStr
      dateTimeParts == Match(t, 1, TRUE)
      dateTimePartsNoSec == Match(t, 1, FALSE)
  IN  IF dateTimeParts # None THEN [now |-> FALSE, args |-> dateTimeParts[1]]
      ELSE IF dateTimePartsNoSec # None THEN [now |-> FALSE, args |-> dateTimePartsNoSec[1]]
      ELSE [now |-> TRUE, args |-> << >>]

(***************************************************************************)
(* The records the parsers build.                                          *)
(***************************************************************************)
LdVehicle(f) ==
  [id |-> f.id, weight |-> f.weight, type |-> f.type, comment |-> f.comment]

LdVenue(f, vehicle) ==
  [name |-> f.name, vehiclePtr |-> f.vehiclePtr, vehicle |-> vehicle]

LdEvent(f, venue) ==
  [name |-> f.name, session |-> f.session, comment |-> f.comment,
   venuePtr |-> f.venuePtr, venue |-> venue]

LdHead(f, event) ==
  [metaPtr |-> f.metaPtr, dataPtr |-> f.dataPtr, eventPtr |-> f.eventPtr,
   event |-> event, driver |-> f.driver, vehicleId |-> f.vehicleId,
   venue |-> f.venue, datetime |-> parseDatetime(f.dateStr, f.timeStr),
   shortComment |-> f.shortComment]

\* the resolution with class 0x05 left out of the integer classes
ResolveDtypeNarrow(dtypeA, dtypeRaw) ==
  IF dtypeA = 7
  THEN (IF dtypeRaw = 2 THEN "float16"
        ELSE IF dtypeRaw = 4 THEN "float32" ELSE Null)
  ELSE IF dtypeA \in {0, 3}
  THEN (IF dtypeRaw = 2 THEN "int16"
        ELSE IF dtypeRaw = 4 THEN "int32" ELSE Null)
  ELSE Null

\* LdChan.fromFile: "Determine data type"
ResolveDtype(dtypeA, dtypeRaw) ==
  IF dtypeA = 7
  THEN (IF dtypeRaw = 2 THEN "float16"
        ELSE IF dtypeRaw = 4 THEN "float32" ELSE Null)
  ELSE IF dtypeA \in {0, 3, 5}
  THEN (IF dtypeRaw = 2 THEN "int16"
        ELSE IF dtypeRaw = 4 THEN "int32" ELSE Null)
  ELSE Null

LdChan(metaPtr, f) ==
  [metaPtr |-> metaPtr, prevMetaPtr |-> f.prevMetaPtr, nextMetaPtr |-> f.nextMetaPtr,
   dataPtr |-> f.dataPtr, dataLen |-> f.dataLen,
   dtype |-> ResolveDtype(f.dtypeA, f.dtypeRaw),
   dtypeA |-> f.dtypeA, dtypeRaw |-> f.dtypeRaw,
   freq |-> f.freq, shift |-> f.shift, mul |-> f.mul, scale |-> f.scale,
   dec |-> f.dec, name |-> f.name, shortName |-> f.shortName, unit |-> f.unit]

\* the guard that also follows a zero pointer
PresentOrZero(ptr) == ptr >= 0

\* the test that guards every pointer jump: if (ptr > 0)
Present(ptr) == ptr > 0

(***************************************************************************)
(* Input files.  Every file is laid out the same way: the header at 0, the *)
(* nested records and the channel records behind it, the sample arrays     *)
(* behind those.                                                           *)
(***************************************************************************)
MaxChans == 2   \* records in a generated channel chain
MaxWalk  == 4   \* iterations of readChannels the model follows
MaxReads == 2   \* readNumericArray calls per channel the model follows

PutU(off, width, v) ==
  [i \in off..(off + width - 1) |-> (v \div Pow(256, i - off)) % 256]
PutI16(off, v) == PutU(off, 2, v % 65536)
PutI32(off, v) == PutU(off, 2, v % 65536) @@ PutU(off + 2, 2, (v \div 65536) % 65536)
PutS(off, str) == [i \in off..(off + Len(str) - 1) |-> str[i - off + 1]]

RECURSIVE Merge(_)
Merge(fs) == IF fs = << >> THEN << >> ELSE Head(fs) @@ Merge(Tail(fs))

FullLen == 8000   \* length of an untruncated generated file
MetaAt(k) == 6400 + 124 * k     \* channel record k = 0, 1, ...
DataAt(k) == 6200 + 16 * k      \* its sample array

HeaderBytes(metaPtr, eventPtr) ==
  Merge(<< PutU(8, 4, metaPtr), PutU(12, 4, DataAt(0)), PutU(36, 4, eventPtr),
           PutS(94, <<50, 51, 47, 49, 49, 47, 50, 48, 48, 53>>),    \* 23/11/2005
           PutS(126, <<48, 57, 58, 53, 51, 58, 48, 48>>),           \* 09:53:00
           PutS(158, <<74, 46, 68, 111, 101>>),                     \* J.Doe
           PutS(222, <<32, 67, 97, 114, 32>>),                      \* " Car "
           PutS(350, <<84, 114, 97, 99, 107>>),                     \* Track
           PutS(1572, <<119, 101, 116>>) >>)                        \* wet

EventBytes(at, venuePtr) ==
  Merge(<< PutS(at, <<82, 97, 99, 101>>), PutS(at + 64, <<81, 49>>),
           PutS(at + 128, <<111, 107>>), PutU(at + 1152, 2, venuePtr) >>)

VenueBytes(at, vehiclePtr) ==
  Merge(<< PutS(at, <<83, 112, 97>>), PutU(at + 1098, 2, vehiclePtr) >>)

VehicleBytes(at) ==
  Merge(<< PutS(at, <<71, 84, 51>>), PutU(at + 192, 4, 1200),
           PutS(at + 196, <<71, 84>>), PutS(at + 228, <<110, 101, 119>>) >>)

\* a channel record at MetaAt(k) from its parameters p, linked to next
ChanBytes(k, p, next) ==
  Merge(<< PutU(MetaAt(k), 4, IF k = 0 THEN 0 ELSE MetaAt(k - 1)),
           PutU(MetaAt(k) + 4, 4, next),
           PutU(MetaAt(k) + 8, 4, p.dataPtr),
           PutU(MetaAt(k) + 12, 4, p.dataLen),
           PutU(MetaAt(k) + 18, 2, p.dtypeA),
           PutU(MetaAt(k) + 20, 2, p.dtypeRaw),
           PutU(MetaAt(k) + 22, 2, 50),
           PutI16(MetaAt(k) + 24, p.shift),
           PutI16(MetaAt(k) + 26, p.mul),
           PutI16(MetaAt(k) + 28, p.scale),
           PutI16(MetaAt(k) + 30, p.dec),
           PutS(MetaAt(k) + 32, p.name),
           PutS(MetaAt(k) + 64, p.name),
           PutS(MetaAt(k) + 72, <<107, 109>>),
           p.data >>)

Params(dtypeA, dtypeRaw, scale, dec, shift, mul, name, dataPtr, dataLen, data) ==
  [dtypeA |-> dtypeA, dtypeRaw |-> dtypeRaw, scale |-> scale, dec |-> dec,
   shift |-> shift, mul |-> mul, name |-> name, dataPtr |-> dataPtr,
   dataLen |-> dataLen, data |-> data]

I16s(at, vs) == Merge([i \in 1..Len(vs) |-> PutI16(at + 2 * (i - 1), vs[i])])
I32s(at, vs) == Merge([i \in 1..Len(vs) |-> PutI32(at + 4 * (i - 1), vs[i])])
U16s(at, vs) == Merge([i \in 1..Len(vs) |-> PutU(at + 2 * (i - 1), 2, vs[i])])
\* 32-bit patterns given as <<low half, high half>>
W32s(at, vs) == Merge([i \in 1..Len(vs) |->
                        PutU(at + 4 * (i - 1), 2, vs[i][1])
                        @@ PutU(at + 4 * (i - 1) + 2, 2, vs[i][2])])

\* the channel parameter sets of the generated chains; record k stores its
\* samples at d = DataAt(k)
ProfileIds == 0..9
NumProfiles == Cardinality(ProfileIds)
Profile(n, d) ==
  CASE n = 0 -> Params(3, 2, 1, 0, 0, 1, <<65>>, d, 3, I16s(d, <<10, -20, 30>>))
    [] n = 1 -> Params(3, 2, 1, 1, 0, 1, <<66>>, d, 3, I16s(d, <<10, 20, 30>>))
    [] n = 2 -> Params(5, 4, 3, -1, 5, -2, <<66>>, d, 2, I32s(d, <<7, -100000>>))
    [] n = 3 -> Params(7, 4, 1, 0, 0, 1, <<67>>, d, 2, W32s(d, << <<0, 16320>>, <<52429, 48588>> >>))
    [] n = 4 -> Params(7, 2, 1, 0, 0, 1, <<68>>, d, 3, U16s(d, <<15360, 49152, 13>>))
    [] n = 5 -> Params(7, 8, 1, 0, 0, 1, <<69>>, d, 1, I16s(d, <<1>>))
    [] n = 6 -> Params(0, 2, 0, 0, 0, 1, <<70>>, d, 3, I16s(d, <<0, 5, -5>>))
    [] n = 7 -> Params(0, 4, 1, 0, 0, 1, <<32, 71>>, FullLen - 6, 3, I32s(FullLen - 6, <<1>>))
    [] n = 8 -> Params(0, 4, 1, 0, 0, 1, <<72>>, d, 0, << >>)
    [] n = 9 -> Params(7, 4, 2, 2, -3, 10, <<65>>, d, 1, W32s(d, << <<4059, 16457>> >>))

\* a chain of n records whose parameter sets start at profile v; the last
\* record links to `last` (0 ends the chain)
RECURSIVE ChainBytes(_, _, _, _)
ChainBytes(k, n, v, last) ==
  IF k >= n THEN << >>
  ELSE ChanBytes(k, Profile((v + k) % NumProfiles, DataAt(k)),
                 IF k = n - 1 THEN last ELSE MetaAt(k + 1))
       @@ ChainBytes(k + 1, n, v, last)

File(len, bytes) == [len |-> len, bytes |-> bytes]

\* files that vary the nested records and the length of the file
EventPtrs == {0, 1762, 5000}
VenuePtrs == {0, 3000}
VehiclePtrs == {0, 4200, 100}
Lengths == {11, 39, 40, 1762, 2000, 4099, 4400, FullLen}

NestedFiles ==
  { File(len, Merge(<< HeaderBytes(IF chan THEN MetaAt(0) ELSE 0, e),
                       IF e = 0 THEN << >> ELSE EventBytes(e, v),
                       VenueBytes(3000, w), VehicleBytes(4200),
                       ChainBytes(0, 1, 0, 0) >>)) :
      len \in Lengths, e \in EventPtrs, v \in VenuePtrs, w \in VehiclePtrs,
      chan \in BOOLEAN }

\* files that vary the channel chain: its length, its records, and where
\* the last record links to (0, the first record, itself, outside the file)
LastLink(n, shape) ==
  CASE shape = "end"     -> 0
    [] shape = "first"   -> MetaAt(0)
    [] shape = "self"    -> MetaAt(n - 1)
    [] shape = "outside" -> FullLen + 100

ChainFiles ==
  { File(FullLen, HeaderBytes(IF n = 0 THEN 0 ELSE MetaAt(0), 0)
                  @@ ChainBytes(0, n, v, LastLink(n, shape))) :
      n \in 0..MaxChans, v \in ProfileIds,
      shape \in {"end", "first", "self", "outside"} }

\* files of one channel that vary the two dtype words of its record
DtypeClasses == {0, 1, 2, 3, 4, 5, 6, 7, 8, 65535}
DtypeWidths == {0, 1, 2, 3, 4, 8}

DtypeFiles ==
  { File(FullLen, HeaderBytes(MetaAt(0), 0)
                  @@ ChanBytes(0, Params(a, w, 1, 0, 0, 1, <<65>>, DataAt(0), 1,
                                         I16s(DataAt(0), <<7>>)), 0)) :
      a \in DtypeClasses, w \in DtypeWidths }

Files == NestedFiles \cup ChainFiles \cup DtypeFiles

(***************************************************************************)
(* BinaryReader.readNumericArray and the sample decoders.                  *)
(***************************************************************************)
\* Buffer.readFloatLE: IEEE 754 single precision, widened exactly
readFloatLE(buf, pos) ==
  LET sign == Byte(buf, pos + 3) \div 128
      exponent == (Byte(buf, pos + 3) % 128) * 2 + Byte(buf, pos + 2) \div 128
      fraction == (Byte(buf, pos + 2) % 128) * 65536 + Byte(buf, pos + 1) * 256
                  + Byte(buf, pos)
  IN  IF exponent = 255 THEN (IF fraction # 0 THEN NaN ELSE Inf(sign))
      ELSE IF exponent = 0 THEN Exact(sign, BN(fraction), -149)
      ELSE Exact(sign, BN(8388608 + fraction), exponent - 150)

\* the half-float decoding with the subnormals scaled like the normals, by
\* 2^(exponent - 15)
readFloat16NoSubnormal(value) ==
  LET sign == (value \div 32768) % 2
      exponent == (value \div 1024) % 32
      fraction == value % 1024
      sgn == FromInt(IF sign = 1 THEN -1 ELSE 1)
  IN  IF exponent = 0
      THEN DMul(DMul(sgn, Pow2(exponent - 15)), DDiv(FromInt(fraction), Pow2(10)))
      ELSE IF exponent = 31
      THEN (IF fraction # 0 THEN NaN ELSE Inf(sign))
      ELSE DMul(DMul(sgn, Pow2(exponent - 15)),
                DAdd(FromInt(1), DDiv(FromInt(fraction), Pow2(10))))

\* BinaryReader.readFloat16, on the 16-bit value readUInt16LE returned
readFloat16(value) ==
  LET sign == (value \div 32768) % 2
      exponent == (value \div 1024) % 32
      fraction == value % 1024
      sgn == FromInt(IF sign = 1 THEN -1 ELSE 1)
  IN  IF exponent = 0
      THEN DMul(DMul(sgn, Pow2(-14)), DDiv(FromInt(fraction), Pow2(10)))
      ELSE IF exponent = 31
      THEN (IF fraction # 0 THEN NaN ELSE Inf(sign))
      ELSE DMul(DMul(sgn, Pow2(exponent - 15)),
                DAdd(FromInt(1), DDiv(FromInt(fraction), Pow2(10))))

Width(dtype) == IF dtype \in {"int16", "float16"} THEN 2 ELSE 4

\* the dtypes LdChan.fromFile resolves to: the cases of the switch it can reach
Decodable == {"int16", "int32", "float32", "float16"}

\* one iteration of the loop of readNumericArray: the value read at pos
ReadSample(buf, pos, dtype) ==
  CASE dtype = "int16"   -> FromInt(IntLE(buf, pos, 2))
    [] dtype = "int32"   -> FromInt(IntLE(buf, pos, 4))
    [] dtype = "float32" -> readFloatLE(buf, pos)
    [] dtype = "float16" -> readFloat16(UIntLE(buf, pos, 2))

\* readNumericArray after its seek: [pos, vals, oob], oob when a read threw;
\* an iteration whose dtype matches no case of the switch pushes nothing
RECURSIVE ReadLoop(_, _, _, _, _)
ReadLoop(buf, pos, left, dtype, acc) ==
  IF left = 0 THEN [pos |-> pos, vals |-> acc, oob |-> FALSE]
  ELSE IF dtype \notin Decodable THEN ReadLoop(buf, pos, left - 1, dtype, acc)
  ELSE IF ~InBounds(buf, pos, Width(dtype)) THEN [pos |-> pos, vals |-> acc, oob |-> TRUE]
  ELSE ReadLoop(buf, pos + Width(dtype), left - 1, dtype,
                Append(acc, ReadSample(buf, pos, dtype)))

\* the reads made at their offsets, the cursor left where seek put it
readNumericArrayNoAdvance(buf, dataPtr, count, dtype) ==
  [ReadLoop(buf, dataPtr, count, dtype, << >>) EXCEPT !.pos = dataPtr]

readNumericArray(buf, dataPtr, count, dtype) ==
  ReadLoop(buf, dataPtr, count, dtype, << >>)

\* the scaling with the sign of dec turned: 10^dec
PhysicalPlusDec(ch, value) ==
  DMul(DAdd(DMul(DDiv(value, FromInt(ch.scale)), Pow10(ch.dec)),
            FromInt(ch.shift)),
       FromInt(ch.mul))

\* LdChan.data, "Apply scaling": (raw/scale * 10^(-dec) + shift) * mul
Physical(ch, value) ==
  DMul(DAdd(DMul(DDiv(value, FromInt(ch.scale)), Pow10(-ch.dec)),
            FromInt(ch.shift)),
       FromInt(ch.mul))

Scale(ch, rawData) == [i \in 1..Len(rawData) |-> Physical(ch, rawData[i])]

(***************************************************************************)
(* The outcome of an operation on a loaded document is                     *)
(* [op, arg, threw, value, cond, name]: the value returned, or the         *)
(* condition thrown (from the text of the Error) and the name it carries.  *)
(* A value is [kind, n, list]: an LdChan object (n is its place in         *)
(* LdData.channels, counted from 1), undefined, a number n, or a list.     *)
(***************************************************************************)
Handle(i) == [kind |-> "LdChan", n |-> i, list |-> << >>]
Undefined == [kind |-> "undefined", n |-> 0, list |-> << >>]
Count(n)  == [kind |-> "number", n |-> n, list |-> << >>]
List(l)   == [kind |-> "list", n |-> 0, list |-> l]
NoValue   == [kind |-> "none", n |-> 0, list |-> << >>]

\* a numeric argument is num/den; den = 0 is NaN
Number(num, den) == [type |-> "number", num |-> num, den |-> den, name |-> << >>]
String(name) == [type |-> "string", num |-> 0, den |-> 1, name |-> name]
This(i) == [type |-> "LdChan", num |-> i, den |-> 1, name |-> << >>]
NoArg == [type |-> "none", num |-> 0, den |-> 1, name |-> << >>]

Returned(op, arg, value) ==
  [op |-> op, arg |-> arg, threw |-> FALSE, value |-> value, cond |-> "none",
   name |-> << >>]

Thrown(op, arg, cond, name) ==
  [op |-> op, arg |-> arg, threw |-> TRUE, value |-> NoValue, cond |-> cond,
   name |-> name]

NoResult == Returned("none", NoArg, NoValue)

(***************************************************************************)
(* The load: LdData.fromFile = LdHead.fromFile, then readChannels.         *)
(***************************************************************************)
NoTrace ==
  [at |-> << >>, jumps |-> {}, short |-> {}, reads |-> << >>, hits |-> {},
   thrown |-> {}]

Init ==
  /\ buffer \in Files
  /\ position = 0
  /\ pc = "head"
  /\ stack = << >>
  /\ ret = None
  /\ head = None
  /\ channels = << >>
  /\ currentPtr = 0
  /\ cache = << >>
  /\ result = NoResult
  /\ err = "none"
  /\ trace = NoTrace

Frame(c) == [fields |-> c.vals, currentPos |-> c.pos]

\* a read threw RangeError: the exception leaves LdData.fromFile
Throw(c) ==
  /\ pc' = "failed"
  /\ err' = "OutOfBounds"
  /\ position' = c.pos
  /\ UNCHANGED <<stack, ret, head, channels, currentPtr, cache, result>>

\* currentPos = reader.tell(); reader.seek(ptr); then the nested fromFile
Jump(c, ptr, to) ==
  /\ stack' = Append(stack, Frame(c))
  /\ position' = ptr
  /\ pc' = to
  /\ UNCHANGED <<ret, head, channels, currentPtr, cache, result, err>>

Observe(c, ptr) ==
  [trace EXCEPT !.short = @ \cup c.short,
                !.jumps = IF ~c.oob /\ Present(c.vals[ptr]) THEN @ \cup {c.vals[ptr]} ELSE @]

\* readChannels starts: currentPtr = metaPtr
StartChannels(h, pos) ==
  /\ head' = Some(h)
  /\ currentPtr' = h.metaPtr
  /\ position' = pos
  /\ pc' = "channels"
  /\ UNCHANGED <<channels, cache, result, err>>

HeadFromFile ==
  /\ pc = "head"
  /\ LET c == Decode(buffer, 0, HeadLayout)
     IN  /\ trace' = [Observe(c, "eventPtr") EXCEPT !.at = c.at]
         /\ IF c.oob THEN Throw(c)
            ELSE IF Present(c.vals.eventPtr) THEN Jump(c, c.vals.eventPtr, "event")
            ELSE /\ StartChannels(LdHead(c.vals, None), c.pos)
                 /\ UNCHANGED <<stack, ret>>
  /\ UNCHANGED buffer

EventFromFile ==
  /\ pc = "event"
  /\ LET c == Decode(buffer, position, EventLayout)
     IN  /\ trace' = Observe(c, "venuePtr")
         /\ IF c.oob THEN Throw(c)
            ELSE IF Present(c.vals.venuePtr) THEN Jump(c, c.vals.venuePtr, "venue")
            ELSE /\ ret' = Some(LdEvent(c.vals, None))
                 /\ position' = c.pos
                 /\ pc' = "headReturn"
                 /\ UNCHANGED <<stack, head, channels, currentPtr, cache, result, err>>
  /\ UNCHANGED buffer

VenueFromFile ==
  /\ pc = "venue"
  /\ LET c == Decode(buffer, position, VenueLayout)
     IN  /\ trace' = Observe(c, "vehiclePtr")
         /\ IF c.oob THEN Throw(c)
            ELSE IF Present(c.vals.vehiclePtr) THEN Jump(c, c.vals.vehiclePtr, "vehicle")
            ELSE /\ ret' = Some(LdVenue(c.vals, None))
                 /\ position' = c.pos
                 /\ pc' = "eventReturn"
                 /\ UNCHANGED <<stack, head, channels, currentPtr, cache, result, err>>
  /\ UNCHANGED buffer

VehicleFromFile ==
  /\ pc = "vehicle"
  /\ LET c == Decode(buffer, position, VehicleLayout)
     IN  /\ trace' = [trace EXCEPT !.short = @ \cup c.short]
         /\ IF c.oob THEN Throw(c)
            ELSE /\ ret' = Some(LdVehicle(c.vals))
                 /\ position' = c.pos
                 /\ pc' = "venueReturn"
                 /\ UNCHANGED <<stack, head, channels, currentPtr, cache, result, err>>
  /\ UNCHANGED buffer

\* the return of LdVenue.fromFile without reader.seek(currentPos)
VenueReturnNoSeek ==
  /\ pc = "venueReturn"
  /\ ret' = Some(LdVenue(stack[Len(stack)].fields, ret))
  /\ stack' = SubSeq(stack, 1, Len(stack) - 1)
  /\ pc' = "eventReturn"
  /\ UNCHANGED <<buffer, position, head, channels, currentPtr, cache, result, err,
                 trace>>

\* LdVenue.fromFile after LdVehicle.fromFile returned: reader.seek(currentPos)
VenueReturn ==
  /\ pc = "venueReturn"
  /\ LET frame == stack[Len(stack)]
     IN  /\ ret' = Some(LdVenue(frame.fields, ret))
         /\ position' = frame.currentPos
  /\ stack' = SubSeq(stack, 1, Len(stack) - 1)
  /\ pc' = "eventReturn"
  /\ UNCHANGED <<buffer, head, channels, currentPtr, cache, result, err, trace>>

\* LdEvent.fromFile after LdVenue.fromFile returned
EventReturn ==
  /\ pc = "eventReturn"
  /\ LET frame == stack[Len(stack)]
     IN  /\ ret' = Some(LdEvent(frame.fields, ret))
         /\ position' = frame.currentPos
  /\ stack' = SubSeq(stack, 1, Len(stack) - 1)
  /\ pc' = "headReturn"
  /\ UNCHANGED <<buffer, head, channels, currentPtr, cache, result, err, trace>>

\* LdHead.fromFile after LdEvent.fromFile returned; LdData.fromFile goes on
HeadReturn ==
  /\ pc = "headReturn"
  /\ LET frame == stack[Len(stack)]
     IN  StartChannels(LdHead(frame.fields, ret), frame.currentPos)
  /\ stack' = SubSeq(stack, 1, Len(stack) - 1)
  /\ UNCHANGED <<buffer, ret, trace>>

\* one iteration of the loop of readChannels
ReadChannelsStep ==
  /\ pc = "channels"
  /\ currentPtr # 0
  /\ Len(channels) < MaxWalk
  /\ LET c == Decode(buffer, currentPtr, ChanLayout)
     IN  /\ trace' = [trace EXCEPT !.short = @ \cup c.short,
                                   !.reads = IF c.oob THEN @ ELSE Append(@, 0)]
         /\ IF c.oob
            THEN Throw(c)
            ELSE /\ channels' = Append(channels, LdChan(currentPtr, c.vals))
                 /\ cache' = Append(cache, None)
                 /\ currentPtr' = c.vals.nextMetaPtr
                 /\ position' = c.pos
                 /\ UNCHANGED <<pc, stack, ret, head, result, err>>
  /\ UNCHANGED buffer

\* the loop ends; LdData.fromFile returns the document
ReadChannelsReturn ==
  /\ pc = "channels"
  /\ currentPtr = 0
  /\ pc' = "loaded"
  /\ UNCHANGED <<buffer, position, stack, ret, head, channels, currentPtr, cache,
                 result, err, trace>>

(***************************************************************************)
(* LdData: the lookups and the getter LdChan.data.                         *)
(***************************************************************************)
\* nameOrIndex < 0 || nameOrIndex >= this.channels.length
OutOfRange(x, length) ==
  x.den # 0 /\ (x.num < 0 \/ x.num >= length * x.den)

\* this.channels[nameOrIndex]: an element, or undefined for any other key
ElementAt(chans, x) ==
  IF x.den # 0 /\ x.num % x.den = 0 /\ x.num \div x.den \in 0..(Len(chans) - 1)
  THEN Handle(x.num \div x.den + 1)
  ELSE Undefined

\* this.channels.filter(ch => ch.name === nameOrIndex), as handles
RECURSIVE Matching(_, _, _)
Matching(chans, name, i) ==
  IF i > Len(chans) THEN << >>
  ELSE (IF chans[i].name = name THEN <<Handle(i)>> ELSE << >>)
       \o Matching(chans, name, i + 1)

\* getChannel without the test for more than one match
getChannelFirstMatch(chans, x) ==
  IF x.type = "number"
  THEN (IF OutOfRange(x, Len(chans))
        THEN Thrown("getChannel", x, "IndexOutOfRange", << >>)
        ELSE Returned("getChannel", x, ElementAt(chans, x)))
  ELSE LET matchingChannels == Matching(chans, x.name, 1)
       IN  IF Len(matchingChannels) = 0
           THEN Thrown("getChannel", x, "ChannelNotFound", x.name)
           ELSE Returned("getChannel", x, matchingChannels[1])

\* LdData.getChannel
getChannel(chans, x) ==
  IF x.type = "number"
  THEN (IF OutOfRange(x, Len(chans))
        THEN Thrown("getChannel", x, "IndexOutOfRange", << >>)
        ELSE Returned("getChannel", x, ElementAt(chans, x)))
  ELSE LET matchingChannels == Matching(chans, x.name, 1)
       IN  IF Len(matchingChannels) = 0
           THEN Thrown("getChannel", x, "ChannelNotFound", x.name)
           ELSE IF Len(matchingChannels) > 1
           THEN Thrown("getChannel", x, "AmbiguousChannelName", x.name)
           ELSE Returned("getChannel", x, matchingChannels[1])

\* LdData.getChannelNames
getChannelNames(chans) == [i \in 1..Len(chans) |-> chans[i].name]

\* the arguments the operations are tried with
Arguments ==
  { Number(n, 1) : n \in -1..(Len(channels) + 1) }
  \cup { Number(1, 2), Number(-1, 2), Number(0, 0) }
  \cup { String(channels[i].name) : i \in 1..Len(channels) }
  \cup { String(<<90>>), String(<<71>>) }

GetChannel(x) ==
  /\ pc = "loaded"
  /\ result' = getChannel(channels, x)
  /\ UNCHANGED <<buffer, position, pc, stack, ret, head, channels, currentPtr,
                 cache, err, trace>>

GetChannelNames ==
  /\ pc = "loaded"
  /\ result' = Returned("getChannelNames", NoArg, List(getChannelNames(channels)))
  /\ UNCHANGED <<buffer, position, pc, stack, ret, head, channels, currentPtr,
                 cache, err, trace>>

ChannelCount ==
  /\ pc = "loaded"
  /\ result' = Returned("channelCount", NoArg, Count(Len(channels)))
  /\ UNCHANGED <<buffer, position, pc, stack, ret, head, channels, currentPtr,
                 cache, err, trace>>

\* the getter's test that never holds
dtypeIsNullNever(ch) == FALSE

\* LdChan.data: if (this.dtype === null)
dtypeIsNull(ch) == ch.dtype = Null

\* the getter's test that always holds
dataIsNullAlways(entry) == TRUE

\* LdChan.data: if (this._data === null)
dataIsNull(entry) == entry = None

\* the getter LdChan.data of channel handle i
Data(i) ==
  /\ pc = "loaded"
  /\ i \in 1..Len(channels)
  /\ LET ch == channels[i]
     IN  IF dtypeIsNull(ch)
         THEN /\ result' = Thrown("data", This(i), "UnknownDataType", ch.name)
              /\ trace' = [trace EXCEPT !.thrown = @ \cup {i}]
              /\ UNCHANGED <<position, cache>>
         ELSE IF ~dataIsNull(cache[i])
         THEN /\ result' = Returned("data", This(i), List(cache[i][1]))
              /\ trace' = [trace EXCEPT !.hits = @ \cup {i}]
              /\ UNCHANGED <<position, cache>>
         ELSE /\ trace.reads[i] < MaxReads
              /\ LET rawData == readNumericArray(buffer, ch.dataPtr, ch.dataLen, ch.dtype)
                 IN  /\ position' = rawData.pos
                     /\ trace' = [trace EXCEPT !.reads[i] = @ + 1,
                                               !.thrown = IF rawData.oob THEN @ \cup {i} ELSE @]
                     /\ IF rawData.oob
                        THEN /\ result' = Thrown("data", This(i), "OutOfBounds", << >>)
                             /\ UNCHANGED cache
                        ELSE /\ cache' = [cache EXCEPT ![i] = Some(Scale(ch, rawData.vals))]
                             /\ result' = Returned("data", This(i), List(cache'[i][1]))
  /\ UNCHANGED <<buffer, pc, stack, ret, head, channels, currentPtr, err>>

Next ==
  \/ HeadFromFile
  \/ EventFromFile
  \/ VenueFromFile
  \/ VehicleFromFile
  \/ VenueReturn
  \/ EventReturn
  \/ HeadReturn
  \/ ReadChannelsStep
  \/ ReadChannelsReturn
  \/ \E x \in Arguments : GetChannel(x)
  \/ GetChannelNames
  \/ ChannelCount
  \/ \E i \in 1..Len(channels) : Data(i)

Spec == Init /\ [][Next]_vars

(***************************************************************************)
(* BinaryReader.readFloat16 on its own: a reader over a buffer of two      *)
(* bytes (every 16-bit pattern), or of one byte, and one call.             *)
(***************************************************************************)
Patterns == 0..(2^16 - 1)

HalfFiles == {File(2, PutU(0, 2, v)) : v \in Patterns} \cup {File(1, PutU(0, 1, 60))}

InitHalf ==
  /\ buffer \in HalfFiles
  /\ position = 0
  /\ pc = "half"
  /\ stack = << >>
  /\ ret = None
  /\ head = None
  /\ channels = << >>
  /\ currentPtr = 0
  /\ cache = << >>
  /\ result = NoResult
  /\ err = "none"
  /\ trace = NoTrace

\* one call of readFloat16: readUInt16LE, then the decoding of its value
ReadFloat16 ==
  /\ pc = "half"
  /\ LET c == readUIntLE(buffer, Cursor(position), 2, "value")
     IN  IF c.oob
         THEN /\ Throw(c)
              /\ UNCHANGED <<buffer, trace>>
         ELSE /\ result' = Returned("readFloat16", NoArg,
                                    List(<<readFloat16(c.vals.value)>>))
              /\ position' = c.pos
              /\ pc' = "halfDone"
              /\ UNCHANGED <<buffer, stack, ret, head, channels, currentPtr, cache,
                             err, trace>>

NextHalf == ReadFloat16

SpecHalf == InitHalf /\ [][NextHalf]_vars

(***************************************************************************)
(* Properties.                                                             *)
(***************************************************************************)
Loaded == pc = "loaded"

\* the handles of the channel records named name
Named(name) == {i \in 1..Len(channels) : channels[i].name = name}

\* C1: the walk of the channel chain decodes no record twice: on a chain
\* whose links lead back to a record already visited it stops (and fails with
\* MalformedChannelChain), so a chain of N records takes at most N steps.
C1_ChainWalkVisitsOnce ==
  \A i, j \in 1..Len(channels) :
    i # j => channels[i].metaPtr # channels[j].metaPtr

\* C2: no read returns for a byte range that leaves the buffer: every such
\* read fails with OutOfBounds, so no document is built from a file that
\* ends inside a record.
C2_NoReadPastTheBuffer == trace.short = {}

\* C3: getChannel(name) fails with ChannelNotFound when no record has the
\* name, with AmbiguousChannelName when two or more have it, and returns the
\* one record otherwise; getChannel(index) of a record that shares its name
\* with another still returns that record.
C3_LookupByName ==
  result.op = "getChannel" =>
    LET x == result.arg
    IN  /\ x.type = "string" =>
             /\ Cardinality(Named(x.name)) = 0 =>
                  result.threw /\ result.cond = "ChannelNotFound"
             /\ Cardinality(Named(x.name)) >= 2 =>
                  result.threw /\ result.cond = "AmbiguousChannelName"
             /\ Cardinality(Named(x.name)) = 1 =>
                  ~result.threw /\ result.value.kind = "LdChan"
                  /\ Named(x.name) = {result.value.n}
        /\ (/\ x.type = "number" /\ x.den = 1
            /\ x.num + 1 \in 1..Len(channels)
            /\ Cardinality(Named(channels[x.num + 1].name)) >= 2) =>
             ~result.threw /\ result.value = Handle(x.num + 1)

C3_Witness ==
  /\ Loaded
  /\ result.op = "getChannel" /\ result.arg.type = "string"
  /\ result.threw /\ result.cond = "AmbiguousChannelName"
  /\ Cardinality(Named(result.arg.name)) = 2

\* C4: listChannelNames() has channelCount entries in the order of the chain
\* walk, and getChannel(i) returns the i-th record of the walk exactly when i
\* is an index in [0, channelCount); for every other numeric index it fails
\* with IndexOutOfRange and returns no absent value.
C4_LookupByIndex ==
  /\ result.op = "getChannelNames" =>
       /\ Len(result.value.list) = Len(channels)
       /\ \A i \in 1..Len(channels) : result.value.list[i] = channels[i].name
  /\ (result.op = "getChannel" /\ result.arg.type = "number") =>
       LET x == result.arg
       IN  IF x.den = 1 /\ x.num \in 0..(Len(channels) - 1)
           THEN ~result.threw /\ result.value = Handle(x.num + 1)
           ELSE result.threw /\ result.cond = "IndexOutOfRange"

\* the nested records of the decoded header, None where absent
EventOf == IF head = None THEN None ELSE head[1].event
VenueOf == IF EventOf = None THEN None ELSE EventOf[1].venue
VehicleOf == IF VenueOf = None THEN None ELSE VenueOf[1].vehicle

\* C7: a nested record exists exactly when its pointer is non-zero: the
\* event of the header iff eventPtr # 0, the venue of an event iff
\* venuePtr # 0, the vehicle of a venue iff vehiclePtr # 0; and no parse is
\* ever started at offset 0 for a zero pointer.
C7_AbsentIffZeroPointer ==
  /\ head # None => (EventOf = None <=> head[1].eventPtr = 0)
  /\ EventOf # None => (VenueOf = None <=> EventOf[1].venuePtr = 0)
  /\ VenueOf # None => (VehicleOf = None <=> VenueOf[1].vehiclePtr = 0)
  /\ 0 \notin trace.jumps
  /\ pc \in {"event", "venue", "vehicle"} => position # 0

C7_Witness ==
  /\ Loaded
  /\ EventOf # None /\ head[1].eventPtr # 0
  /\ VenueOf # None /\ EventOf[1].venuePtr # 0
  /\ VehicleOf = None /\ VenueOf[1].vehiclePtr = 0

\* the header fields that are decoded
HeadFields ==
  {"metaPtr", "dataPtr", "eventPtr", "dateStr", "timeStr", "driver",
   "vehicleId", "venue", "shortComment"}

\* the cursor position at the read of every header field that was read is
\* the offset given for it
ReadAt(offsets) ==
  /\ \A f \in DOMAIN trace.at : trace.at[f] = offsets[f]
  /\ head # None => DOMAIN trace.at = HeadFields

\* C8 as stated: the text fields are read at 102, 134, 166, 230, 358, 1514.
C8_StatedOffsets ==
  ReadAt([metaPtr |-> 8, dataPtr |-> 12, eventPtr |-> 36, dateStr |-> 102,
          timeStr |-> 134, driver |-> 166, vehicleId |-> 230, venue |-> 358,
          shortComment |-> 1514])

\* C8: header decoding reads metaPtr at 8, dataPtr at 12, eventPtr at 36,
\* the date text at 94, the time text at 126, driver at 158, vehicleId at
\* 222, venue at 350 and shortComment at 1572: the cursor stands at that
\* offset when the field is read, and the decoded header holds the bytes
\* found there.
C8_HeaderOffsets ==
  /\ ReadAt([metaPtr |-> 8, dataPtr |-> 12, eventPtr |-> 36, dateStr |-> 94,
             timeStr |-> 126, driver |-> 158, vehicleId |-> 222, venue |-> 350,
             shortComment |-> 1572])
  /\ head # None =>
       /\ head[1].metaPtr = UIntLE(buffer, 8, 4)
       /\ head[1].dataPtr = UIntLE(buffer, 12, 4)
       /\ head[1].eventPtr = UIntLE(buffer, 36, 4)
       /\ head[1].driver = decodeString(Slice(buffer, 158, 158 + 64))
       /\ head[1].vehicleId = decodeString(Slice(buffer, 222, 222 + 64))
       /\ head[1].venue = decodeString(Slice(buffer, 350, 350 + 64))
       /\ head[1].shortComment = decodeString(Slice(buffer, 1572, 1572 + 64))
       /\ head[1].datetime =
            parseDatetime(decodeString(Slice(buffer, 94, 94 + 16)),
                          decodeString(Slice(buffer, 126, 126 + 16)))

C8_Witness ==
  /\ Loaded
  /\ DOMAIN trace.at = HeadFields
  /\ head[1].driver = <<74, 46, 68, 111, 101>>
  /\ head[1].shortComment = <<119, 101, 116>>
  /\ head[1].datetime = [now |-> FALSE, args |-> <<2005, 10, 23, 9, 53, 0>>]

\* the dtype the table gives for the two words of a channel record
TableDtype(class, width) ==
  CASE class = 7 /\ width = 2 -> "float16"
    [] class = 7 /\ width = 4 -> "float32"
    [] class \in {0, 3, 5} /\ width = 2 -> "int16"
    [] class \in {0, 3, 5} /\ width = 4 -> "int32"
    [] OTHER -> Null

\* C9: the dtype of every channel record is the one the table gives for the
\* class word (at +18) and the width word (at +20) of the record: float16
\* for (7, 2), float32 for (7, 4), int16 and int32 for widths 2 and 4 of the
\* classes 0, 3, 5, unknown for every other pair; a record of any pair
\* becomes a channel.
C9_DtypeTable ==
  \A i \in 1..Len(channels) :
    channels[i].dtype = TableDtype(UIntLE(buffer, channels[i].metaPtr + 18, 2),
                                   UIntLE(buffer, channels[i].metaPtr + 20, 2))

C9_Witness ==
  /\ Loaded
  /\ \E i \in 1..Len(channels) :
       /\ UIntLE(buffer, channels[i].metaPtr + 18, 2) = 5
       /\ UIntLE(buffer, channels[i].metaPtr + 20, 2) = 4
       /\ channels[i].dtype = "int32"

\* the channels whose samples have been computed
Computed == {i \in 1..Len(channels) : cache[i] # None}

\* whether the samples of channel ch lie inside the buffer
DataInBuffer(ch) ==
  ch.dataLen = 0 \/ InBounds(buffer, ch.dataPtr, ch.dataLen * Width(ch.dtype))

\* C5: for a channel with a resolved dtype whose samples lie inside the
\* buffer, .data returns exactly dataLen values; the values are computed by
\* one read of the buffer, at the first access, and every later access
\* returns that same cached sequence: the cached sequence never changes and
\* the buffer is not read again, whatever operations come in between.
C5_InvCachedOnce ==
  /\ \A i \in Computed :
       /\ Len(cache[i][1]) = channels[i].dataLen
       /\ trace.reads[i] = 1
  /\ \A i \in trace.hits : i \in Computed
  /\ result.op = "data" =>
       LET i == result.arg.num
       IN  /\ (channels[i].dtype # Null /\ DataInBuffer(channels[i])) =>
                /\ ~result.threw
                /\ Len(result.value.list) = channels[i].dataLen
           /\ ~result.threw => i \in Computed /\ result.value.list = cache[i][1]

C5_StepKeepsCache ==
  \A i \in Computed :
    /\ cache'[i] = cache[i]
    /\ trace'.reads[i] = trace.reads[i]

C5_DataMemoized == [](C5_InvCachedOnce) /\ [][C5_StepKeepsCache]_vars

\* a second access to a computed channel of three samples, in a document
\* where another channel has been computed too
C5_Witness ==
  /\ result.op = "data" /\ ~result.threw
  /\ result.arg.num \in trace.hits
  /\ Len(result.value.list) = 3
  /\ \E j \in Computed : j # result.arg.num

\* C6: a channel record of unknown dtype does not make the load fail (the
\* load fails only where a read leaves the buffer) and is a channel of the
\* document; every access to its .data fails with UnknownDataType and the
\* name of the channel, and only such a channel fails so; the failing
\* access changes neither the buffer, the channels nor any cached samples,
\* and the samples of every channel are what its record and the buffer
\* give, whatever accesses came before.
C6_InvUnknownAtAccess ==
  /\ pc = "failed" => err = "OutOfBounds" /\ position + 4 > buffer.len
  /\ \A i \in 1..Len(channels) :
       channels[i].dtype = Null => cache[i] = None
  /\ result.op = "data" =>
       LET ch == channels[result.arg.num]
       IN  IF ch.dtype = Null
           THEN /\ result.threw /\ result.cond = "UnknownDataType"
                /\ result.name = ch.name
           ELSE result.cond # "UnknownDataType"
  /\ \A j \in Computed :
       LET ch == channels[j]
       IN  cache[j][1] =
             Scale(ch, readNumericArray(buffer, ch.dataPtr, ch.dataLen, ch.dtype).vals)

C6_StepFailureIsLocal ==
  (result'.op = "data" /\ result'.cond = "UnknownDataType") =>
    UNCHANGED <<buffer, position, head, channels, cache>>

C6_UnknownDtypeAtAccessOnly ==
  [](C6_InvUnknownAtAccess) /\ [][C6_StepFailureIsLocal]_vars

\* the samples of a channel are returned after the access to a channel of
\* unknown dtype in the same document has failed
C6_Witness ==
  /\ result.op = "data" /\ ~result.threw /\ Len(result.value.list) > 0
  /\ \E i \in trace.thrown : i # result.arg.num /\ channels[i].dtype = Null

\* raw sample k of a channel, read where the record says it is
RawAt(ch, k) == ReadSample(buffer, ch.dataPtr + (k - 1) * Width(ch.dtype), ch.dtype)

\* the samples of the channel named name, if computed
Samples(name) ==
  {cache[i][1] : i \in {j \in Computed : channels[j].name = name}}

\* C10: sample k of .data is (v / scale * 10^(-dec) + shift) * mul for the
\* k-th raw sample v of the channel and the parameters of its own record;
\* with scale = 1, dec = 0, shift = 0, mul = 1 it is v itself, and the
\* int16 samples 10, 20, 30 with scale = 1, dec = 1, shift = 0, mul = 1
\* give 1, 2, 3.
C10_Scaling ==
  \A i \in Computed :
    LET ch == channels[i]
    IN  /\ Len(cache[i][1]) = ch.dataLen
        /\ \A k \in 1..ch.dataLen :
             /\ cache[i][1][k] =
                  DMul(DAdd(DMul(DDiv(RawAt(ch, k), FromInt(ch.scale)),
                                 Pow10(0 - ch.dec)),
                            FromInt(ch.shift)),
                       FromInt(ch.mul))
             /\ (ch.scale = 1 /\ ch.dec = 0 /\ ch.shift = 0 /\ ch.mul = 1) =>
                  cache[i][1][k] = RawAt(ch, k)
        /\ (/\ ch.dtype = "int16" /\ ch.dataLen = 3
            /\ ch.scale = 1 /\ ch.dec = 1 /\ ch.shift = 0 /\ ch.mul = 1
            /\ \A k \in 1..3 : RawAt(ch, k) = FromInt(10 * k)) =>
             cache[i][1] = <<FromInt(1), FromInt(2), FromInt(3)>>

C10_Witness ==
  /\ <<FromInt(1), FromInt(2), FromInt(3)>> \in Samples(<<66>>)
  /\ <<FromInt(10), FromInt(-20), FromInt(30)>> \in Samples(<<65>>)

\* two doubles that are the same number (0 and -0 are)
SameNumber(x, y) == x = y \/ (IsZero(x) /\ IsZero(y))

\* the double that one call of readFloat16 returned
Half == result.value.list[1]

\* C11: the 16-bit pattern of sign bit s, exponent e and fraction f decodes
\* to (-1)^s * 2^-14 * f/1024 when e = 0, to NaN when e = 31 and f # 0, to
\* +Infinity or -Infinity by the sign when e = 31 and f = 0, and to
\* (-1)^s * 2^(e-15) * (1 + f/1024) otherwise; 0x3C00 is 1, 0xC000 is -2,
\* 0x7C00 is +Infinity, 0xFC00 is -Infinity, 0x7E00 is NaN and 0x0000 is 0.
C11_HalfFloat ==
  pc = "halfDone" =>
    LET value == UIntLE(buffer, 0, 2)
        s == value \div 2^15
        e == (value \div 2^10) % 2^5
        f == value % 2^10
    IN  /\ e = 0 => SameNumber(Half, Exact(s, BN(f), -14 - 10))
        /\ (e = 31 /\ f # 0) => Half = NaN
        /\ (e = 31 /\ f = 0) => Half = Inf(s)
        /\ e \in 1..30 => Half = Exact(s, BN(2^10 + f), e - 15 - 10)
        /\ value = 15360 => Half = FromInt(1)
        /\ value = 49152 => Half = FromInt(-2)
        /\ value = 31744 => Half = Inf(0)
        /\ value = 64512 => Half = Inf(1)
        /\ value = 32256 => Half = NaN
        /\ value = 0 => Half = Zero(0)

\* the smallest subnormal, 2^-24, has been decoded
C11_Witness ==
  /\ pc = "halfDone"
  /\ UIntLE(buffer, 0, 2) = 1
  /\ Half = Exact(0, <<1>>, -24)

\* the pointers of the file, read from its bytes
EventPtrOf == UIntLE(buffer, 36, 4)
VenuePtrOf == UIntLE(buffer, EventPtrOf + 64 + 64 + 1024, 2)
VehiclePtrOf == UIntLE(buffer, VenuePtrOf + 64 + 1034, 2)

\* C12: when a parser has followed a pointer, the cursor is back where it
\* stood before the jump once the nested parse has returned: behind the
\* venue record when LdVenue.fromFile returns, behind the event record when
\* LdEvent.fromFile returns, behind the header when LdHead.fromFile returns,
\* whether the pointer of the record was zero or not and wherever it led;
\* the positions saved meanwhile are those ends of the records.
C12_PositionRestored ==
  /\ pc = "eventReturn" => position = VenuePtrOf + 64 + 1034 + 2
  /\ pc = "headReturn" => position = EventPtrOf + 64 + 64 + 1024 + 2
  /\ (pc = "channels" /\ channels = << >>) => position = 1762
  /\ Len(stack) >= 1 => stack[1].currentPos = 1762
  /\ Len(stack) >= 2 => stack[2].currentPos = EventPtrOf + 64 + 64 + 1024 + 2
  /\ Len(stack) >= 3 => stack[3].currentPos = VenuePtrOf + 64 + 1034 + 2

\* LdVenue.fromFile has returned from a vehicle that lies before the venue,
\* itself reached from an event that lies behind it
C12_Witness ==
  /\ pc = "eventReturn"
  /\ ret # None /\ ret[1].vehicle # None
  /\ VehiclePtrOf < VenuePtrOf /\ VenuePtrOf < EventPtrOf
  /\ VehiclePtrOf > 0
  /\ position = VenuePtrOf + 1100

\* C13: samples are computed only for a channel whose scale is not zero
\* and whose dtype is one of the four encodings: no channel with scale = 0
\* or with unknown dtype ever holds (or returns) a sample sequence.
C13_NoSamplesWithoutScale ==
  /\ \A i \in Computed : channels[i].scale # 0 /\ channels[i].dtype # Null
  /\ (result.op = "data" /\ ~result.threw) =>
       /\ channels[result.arg.num].scale # 0
       /\ channels[result.arg.num].dtype # Null

\* what an operation on the loaded document never changes
Document == <<buffer, head, channels>>

\* only the cache of the channel whose .data was read changes
OnlyOwnCache ==
  \A j \in 1..Len(cache) :
    cache'[j] # cache[j] => result'.op = "data" /\ result'.arg.num = j

\* C14 as stated: an operation on the loaded document changes nothing but
\* the cache of the channel accessed, the cursor position included, and a
\* failing operation changes nothing at all.
C14_OnlyTheCacheChanges ==
  [][pc = "loaded" =>
       /\ UNCHANGED Document
       /\ UNCHANGED position
       /\ OnlyOwnCache
       /\ result'.threw => UNCHANGED cache]_vars

\* where the first read of the samples of channel ch leaves the cursor
EndOfSamples(ch) == ch.dataPtr + ch.dataLen * Width(ch.dtype)

\* C14: an operation on the loaded document changes neither the header,
\* the channel list and its order nor the metadata of any channel; the
\* lookups, and .data of a channel of unknown dtype or with cached samples,
\* change nothing; the first .data of a channel moves the shared cursor to
\* the end of the samples it read (or to the read that failed) and, when it
\* succeeds, fills the cache of that channel alone; a failing operation
\* changes no cache, and none but a .data that fails with OutOfBounds moves
\* the cursor.
C14_StepFrame ==
  pc = "loaded" =>
    /\ UNCHANGED Document
    /\ pc' = "loaded"
    /\ OnlyOwnCache
    /\ \A j \in 1..Len(cache) : cache'[j] # cache[j] => cache[j] = None /\ ~result'.threw
    /\ result'.op # "data" => UNCHANGED <<position, cache>>
    /\ result'.threw =>
         /\ UNCHANGED cache
         /\ result'.cond # "OutOfBounds" => UNCHANGED position
    /\ position' # position =>
         /\ result'.op = "data"
         /\ LET i == result'.arg.num
            IN  /\ cache[i] = None /\ channels[i].dtype # Null
                /\ position' \in channels[i].dataPtr..EndOfSamples(channels[i])
    /\ (result'.op = "data" /\ ~result'.threw /\ cache[result'.arg.num] = None) =>
         position' = EndOfSamples(channels[result'.arg.num])

C14_FrameOfOperations == [][C14_StepFrame]_vars

\* where the load left the cursor: behind the last channel record read
EndOfLoad ==
  IF channels = << >> THEN 1762 ELSE channels[Len(channels)].metaPtr + 124

\* the first .data of a channel has returned its samples and left the
\* cursor behind them, away from where the load had left it
C14_Witness ==
  /\ Loaded
  /\ result.op = "data" /\ ~result.threw
  /\ result.arg.num \notin trace.hits
  /\ channels[result.arg.num].dataLen > 0
  /\ position = EndOfSamples(channels[result.arg.num])
  /\ position # EndOfLoad

====
